---------------------------- MODULE Spec2Model ----------------------------
(***************************************************************************)
(* Model of fuzzer.py, the API BOLA vulnerability fuzzer.                  *)
(*                                                                         *)
(* Text is modelled as a sequence of tokens: every token stands for its    *)
(* literal characters and concatenating sequences concatenates the text.   *)
(* The characters the code inspects ("/", "{", "}", the line feed) are     *)
(* always tokens of their own, so splitting, stripping and replacing act   *)
(* on the token sequence exactly as they act on the characters.            *)
(***************************************************************************)
EXTENDS Integers, Sequences, FiniteSets, TLC

VARIABLES
    pc,                 \* position of the script: "config", "load", "fuzz", "request", "done", "crashed"
    args,               \* argparse namespace: url, file, config
    configFile,         \* what the file system holds at args.config
    BASE_URL,           \* resolved configuration
    OPENAPI_FILE,
    ZAP_PROXY_HOST,
    specFile,           \* what the file system holds at OPENAPI_FILE
    spec,               \* result of load_openapi_spec
    pathIdx,            \* position of the outer loop over spec['paths'].items()
    opIdx,              \* position of the loop over path_data.items()
    payloadIdx,         \* position of the loop over FUZZ_PAYLOADS
    RequestsCount,      \* local counter of fuzz_path_parameters
    PositiveResponses,  \* module-level list of flagged path templates
    requests,           \* every call of requests.request so far, in order
    res,                \* outcome of the latest request
    okPaths,            \* history: path templates that received a 200 response
    hadError,           \* history: some request raised RequestException
    repeated200,        \* history: a 200 response arrived for a path that had one before
    interrupted,        \* history: KeyboardInterrupt was caught
    saveCalls,          \* history: the pathList of every call of save_results
    console,            \* run-level messages printed so far
    files               \* files written so far

vars == <<pc, args, configFile, BASE_URL, OPENAPI_FILE, ZAP_PROXY_HOST, specFile,
          spec, pathIdx, opIdx, payloadIdx, RequestsCount, PositiveResponses,
          requests, res, okPaths, hadError, repeated200, interrupted, saveCalls,
          console, files>>

-----------------------------------------------------------------------------
(* Bounds of the model *)

\* A document of the model has at most MaxPaths path templates.
MaxPaths == 2

-----------------------------------------------------------------------------
(* Text helpers *)

Slash == "/"
LF == "\n"

\* s starts with the non-empty token sequence p
StartsWith(s, p) ==
    /\ Len(p) <= Len(s)
    /\ SubSeq(s, 1, Len(p)) = p

Drop(s, n) == SubSeq(s, n + 1, Len(s))

\* str.replace(old, new): every non-overlapping occurrence, left to right
RECURSIVE ReplaceFirstOnly(_, _, _)
ReplaceFirstOnly(s, old, new) ==
    IF s = <<>> THEN <<>>
    ELSE IF StartsWith(s, old) THEN new \o Drop(s, Len(old))
    ELSE <<Head(s)>> \o ReplaceFirstOnly(Tail(s), old, new)

RECURSIVE Replace(_, _, _)
Replace(s, old, new) ==
    IF s = <<>> THEN <<>>
    ELSE IF StartsWith(s, old) THEN new \o Replace(Drop(s, Len(old)), old, new)
    ELSE <<Head(s)>> \o Replace(Tail(s), old, new)

\* str.lstrip('/'): every leading slash is removed
RECURSIVE LStripSlash(_)
LStripSlash(s) ==
    IF s # <<>> /\ Head(s) = Slash THEN LStripSlash(Tail(s)) ELSE s

\* str.split(sep) for a one-character separator: the pieces between separators,
\* empty ones included
RECURSIVE Split(_, _)
Split(s, sep) ==
    IF \A i \in 1..Len(s) : s[i] # sep THEN <<s>>
    ELSE LET k == CHOOSE i \in 1..Len(s) :
                      s[i] = sep /\ \A j \in 1..(i - 1) : s[j] # sep
         IN <<SubSeq(s, 1, k - 1)>> \o Split(Drop(s, k), sep)

SplitSlash(s) == Split(s, Slash)

\* sep.join(parts)
RECURSIVE Join(_, _)
Join(parts, sep) ==
    IF parts = <<>> THEN <<>>
    ELSE IF Len(parts) = 1 THEN parts[1]
    ELSE parts[1] \o sep \o Join(Tail(parts), sep)

\* list membership
InList(x, list) == \E i \in 1..Len(list) : list[i] = x

-----------------------------------------------------------------------------
(* urllib.parse.urljoin, for a base URL "scheme://netloc/path" and a       *)
(* relative reference made of path segments only, which is what the fuzz   *)
(* loop passes: the reference has lost its leading slashes and carries no  *)
(* scheme, query or fragment.                                              *)

SchemeTokens == {"https:", "http:"}

urlparse(url) ==
    LET hasScheme == url # <<>> /\ Head(url) \in SchemeTokens
        afterScheme == IF hasScheme THEN Tail(url) ELSE url
        hasNetloc == StartsWith(afterScheme, <<Slash, Slash>>)
        afterSlashes == IF hasNetloc THEN Drop(afterScheme, 2) ELSE afterScheme
        netlocLen == IF ~hasNetloc THEN 0
                     ELSE IF \A i \in 1..Len(afterSlashes) : afterSlashes[i] # Slash
                          THEN Len(afterSlashes)
                          ELSE (CHOOSE i \in 1..Len(afterSlashes) :
                                    /\ afterSlashes[i] = Slash
                                    /\ \A j \in 1..(i - 1) : afterSlashes[j] # Slash) - 1
    IN [scheme |-> IF hasScheme THEN <<Head(url)>> ELSE <<>>,
        netloc |-> SubSeq(afterSlashes, 1, netlocLen),
        path   |-> Drop(afterSlashes, netlocLen)]

urlunparse(scheme, netloc, path) ==
    scheme \o (IF netloc # <<>> THEN <<Slash, Slash>> ELSE <<>>) \o netloc \o path

\* segments[1:-1] = filter(None, segments[1:-1])
FilterInner(segments) ==
    IF Len(segments) <= 2 THEN segments
    ELSE <<segments[1]>>
         \o SelectSeq(SubSeq(segments, 2, Len(segments) - 1), LAMBDA g : g # <<>>)
         \o <<segments[Len(segments)]>>

\* the loop that resolves "." and ".." segments
RECURSIVE ResolveDots(_, _)
ResolveDots(segments, resolved) ==
    IF segments = <<>> THEN resolved
    ELSE LET seg == Head(segments)
         IN IF seg = <<"..">>
            THEN ResolveDots(Tail(segments),
                     IF resolved = <<>> THEN resolved
                     ELSE SubSeq(resolved, 1, Len(resolved) - 1))
            ELSE IF seg = <<".">> THEN ResolveDots(Tail(segments), resolved)
            ELSE ResolveDots(Tail(segments), Append(resolved, seg))

urljoin(base, url) ==
    IF base = <<>> THEN url
    ELSE IF url = <<>> THEN base
    ELSE
      LET b == urlparse(base)
          path == url
          base_parts0 == SplitSlash(b.path)
          base_parts == IF base_parts0[Len(base_parts0)] # <<>>
                        THEN SubSeq(base_parts0, 1, Len(base_parts0) - 1)
                        ELSE base_parts0
          segments == IF Head(path) = Slash THEN SplitSlash(path)
                      ELSE FilterInner(base_parts \o SplitSlash(path))
          resolved0 == ResolveDots(segments, <<>>)
          resolved_path == IF segments[Len(segments)] \in {<<".">>, <<"..">>}
                           THEN Append(resolved0, <<>>)
                           ELSE resolved0
          joined == Join(resolved_path, <<Slash>>)
      IN urlunparse(b.scheme, b.netloc, IF joined = <<>> THEN <<Slash>> ELSE joined)

-----------------------------------------------------------------------------
(* Module-level constants of fuzzer.py *)

DefaultBaseUrl == <<"https:", Slash, Slash, "api.example.com">>
DefaultOpenapiFile == <<"openapi.json">>
DefaultZapProxy == <<"http:", Slash, Slash, "127.0.0.1:8080">>

ConfigKeys == {"base_url", "openapi_file", "zap_proxy"}

DEFAULT_CONFIG ==
    [k \in ConfigKeys |->
        CASE k = "base_url" -> DefaultBaseUrl
          [] k = "openapi_file" -> DefaultOpenapiFile
          [] k = "zap_proxy" -> DefaultZapProxy]

FUZZ_PAYLOADS ==
    << <<"1">>, <<"0">>, <<"6,5">>, <<"24">>, <<"-5">>, <<"*&^$">>, <<"text">> >>

REQUEST_TIMEOUT == 10

SEPARATOR_WIDTH == 50

-----------------------------------------------------------------------------
(* Python values *)

\* None, and a str value, of an optional command-line flag
NoneValue == [isNone |-> TRUE]
Str(s) == [isNone |-> FALSE, value |-> s]

\* truth value of an optional str: None and '' are false
Truthy(v) == ~v.isNone /\ v.value # <<>>

-----------------------------------------------------------------------------
(* The OpenAPI documents of the model.  A document is a dict; its 'paths'  *)
(* value is a sequence of (path, path_data) items in the order of the file *)
(* and path_data a sequence of (method, operation) items.  Keys of a JSON  *)
(* object are distinct after json.load.                                    *)

Param(name, where) == [name |-> <<name>>, in |-> where]
Operation(method, parameters) == [method |-> method, parameters |-> parameters]
PathItem(path, path_data) == [path |-> path, path_data |-> path_data]

PathPool ==
    { PathItem(<<Slash, "users", Slash, "{", "id", "}", Slash, "orders", Slash, "{", "orderId", "}">>,
               << Operation("get", << Param("id", "path"), Param("orderId", "path") >>),
                  Operation("head", << Param("sid", "cookie") >>) >>),
      PathItem(<<Slash, "items", Slash, "{", "id", "}", Slash, "{", "tag", "}", Slash, "{", "id", "}">>,
               << Operation("get", << Param("limit", "query"), Param("id", "path") >>),
                  Operation("delete", << Param("id", "path"), Param("rev", "path") >>) >>),
      PathItem(<<Slash, "health">>,
               << Operation("get", <<>>),
                  Operation("post", << Param("token", "header") >>) >>) }

\* sequences of at most n distinct items of the pool
RECURSIVE PathSeqs(_)
PathSeqs(n) ==
    IF n = 0 THEN { <<>> }
    ELSE LET shorter == PathSeqs(n - 1)
         IN shorter \cup { Append(s, e) : s \in shorter, e \in PathPool }

DistinctPaths(s) == \A i, j \in 1..Len(s) : i # j => s[i].path # s[j].path

\* {} , a document without 'paths', and documents with 'paths'
Documents ==
    { [other |-> FALSE, hasPaths |-> FALSE, paths |-> <<>>],
      [other |-> TRUE, hasPaths |-> FALSE, paths |-> <<>>] }
    \cup { [other |-> TRUE, hasPaths |-> TRUE, paths |-> s] :
              s \in { t \in PathSeqs(MaxPaths) : DistinctPaths(t) } }

\* bool(spec) of a dict: it has some key
DictTruthy(doc) == doc.other \/ doc.hasPaths

\* spec.get('paths', {}).items()
PathsOf(doc) == IF doc.hasPaths THEN doc.paths ELSE <<>>

BaseUrls ==
    { DefaultBaseUrl,
      DefaultBaseUrl \o <<Slash>>,
      DefaultBaseUrl \o <<Slash, "v1">>,
      DefaultBaseUrl \o <<Slash, "v1", Slash>> }

-----------------------------------------------------------------------------
(* Pure steps of fuzz_path_parameters *)

\* [p for p in operation.get('parameters', []) if p.get('in') == 'path']
PathParamsAll(operation) == operation.parameters

PathParams(operation) ==
    SelectSeq(operation.parameters, LAMBDA p : p.in = "path")

\* f'{{{param["name"]}}}'
Placeholder(param) == <<"{">> \o param.name \o <<"}">>

\* the loop over path_params that rewrites fuzzed_path
RECURSIVE FuzzedPath(_, _, _)
FuzzedPath(fuzzed_path, path_params, payload) ==
    IF path_params = <<>> THEN fuzzed_path
    ELSE FuzzedPath(Replace(fuzzed_path, Placeholder(Head(path_params)), payload),
                    Tail(path_params), payload)

\* urljoin(base_url, fuzzed_path.lstrip('/'))
FullUrl(base_url, fuzzed_path) == urljoin(base_url, LStripSlash(fuzzed_path))

\* the call requests.request(method, full_url, data="{}", timeout=10, proxies=..., verify=False)
Request(method, full_url, proxy, path, payload, fuzzed_path) ==
    [method |-> method, url |-> full_url, data |-> "{}", timeout |-> REQUEST_TIMEOUT,
     proxies |-> [http |-> proxy, https |-> proxy], verify |-> FALSE,
     path |-> path, payload |-> payload, fuzzed_path |-> fuzzed_path]

\* outcomes of one request: a response with a status code, or RequestException
StatusCodes == {200, 201, 301, 404, 500}
RequestException == -1
Outcomes == StatusCodes \cup {RequestException}

\* if res.status_code == 200: if path not in PositiveResponses: append
ClassifyNoDedup(findings, path, outcome) ==
    IF outcome = 200 THEN Append(findings, path) ELSE findings

ClassifyAnySuccess(findings, path, outcome) ==
    IF outcome \in 200..299 /\ ~InList(path, findings)
    THEN Append(findings, path) ELSE findings

Classify(findings, path, outcome) ==
    IF outcome = 200 /\ ~InList(path, findings)
    THEN Append(findings, path) ELSE findings

-----------------------------------------------------------------------------
(* Configuration resolution *)

\* a name that is not bound yet
Unbound == <<"<unbound>">>

FileBaseUrl == DefaultBaseUrl \o <<Slash, "v1", Slash>>
FileOpenapiFile == <<"petstore.json">>
FileZapProxy == <<"http:", Slash, Slash, "127.0.0.1:8090">>
CliUrl == <<"https:", Slash, Slash, "staging.example.com", Slash>>
CliFile == <<"spec.json">>

FileValue(k) ==
    CASE k = "base_url" -> FileBaseUrl
      [] k = "openapi_file" -> FileOpenapiFile
      [] k = "zap_proxy" -> FileZapProxy

\* what the file system may hold at the path of the configuration file: nothing,
\* text that is not JSON, or a JSON object with some of the three keys
ConfigFiles ==
    { [kind |-> "missing"], [kind |-> "invalid"] }
    \cup { [kind |-> "json", value |-> [k \in ks |-> FileValue(k)]] : ks \in SUBSET ConfigKeys }

\* the namespaces parse_arguments can return
ArgSets ==
    [url : {NoneValue, Str(<<>>), Str(CliUrl)},
     file : {NoneValue, Str(<<>>), Str(CliFile)},
     config : {<<"config.json">>, <<"my.json">>}]

load_config(file) ==
    IF file.kind = "json" THEN file.value ELSE DEFAULT_CONFIG

load_config_output(file) ==
    IF file.kind = "invalid" THEN << [msg |-> "Warning: Invalid JSON, using defaults"] >>
    ELSE <<>>

\* the three assignments of __main__ that read config; a missing key raises KeyError
BaseUrlRaises(a, config) == ~Truthy(a.url) /\ "base_url" \notin DOMAIN config
OpenapiFileRaises(a, config) == ~Truthy(a.file) /\ "openapi_file" \notin DOMAIN config
ZapProxyRaises(config) == "zap_proxy" \notin DOMAIN config

ResolveConfig ==
    /\ pc = "config"
    /\ LET config == load_config(configFile)
       IN /\ ~BaseUrlRaises(args, config)
          /\ ~OpenapiFileRaises(args, config)
          /\ ~ZapProxyRaises(config)
          /\ BASE_URL' = IF Truthy(args.url) THEN args.url.value ELSE config["base_url"]
          /\ OPENAPI_FILE' = IF Truthy(args.file) THEN args.file.value
                             ELSE config["openapi_file"]
          /\ ZAP_PROXY_HOST' = config["zap_proxy"]
          /\ console' = console \o load_config_output(configFile)
                                \o << [msg |-> "API BOLA Vulnerability Fuzzer"] >>
    /\ pc' = "load"
    /\ UNCHANGED <<args, configFile, specFile, spec, pathIdx, opIdx, payloadIdx,
                   RequestsCount, PositiveResponses, requests, res, okPaths, hadError, repeated200,
                   interrupted, saveCalls, files>>

ConfigKeyError ==
    /\ pc = "config"
    /\ LET config == load_config(configFile)
           r1 == BaseUrlRaises(args, config)
           r2 == OpenapiFileRaises(args, config)
           r3 == ZapProxyRaises(config)
       IN /\ r1 \/ r2 \/ r3
          /\ BASE_URL' = IF r1 THEN BASE_URL
                         ELSE IF Truthy(args.url) THEN args.url.value ELSE config["base_url"]
          /\ OPENAPI_FILE' = IF r1 \/ r2 THEN OPENAPI_FILE
                             ELSE IF Truthy(args.file) THEN args.file.value
                             ELSE config["openapi_file"]
          /\ ZAP_PROXY_HOST' = ZAP_PROXY_HOST
          /\ console' = console \o load_config_output(configFile)
                                \o << [msg |-> "KeyError"] >>
    /\ pc' = "crashed"
    /\ UNCHANGED <<args, configFile, specFile, spec, pathIdx, opIdx, payloadIdx,
                   RequestsCount, PositiveResponses, requests, res, okPaths, hadError, repeated200,
                   interrupted, saveCalls, files>>

-----------------------------------------------------------------------------
(* load_openapi_spec *)

\* what the file system may hold at OPENAPI_FILE
SpecFiles ==
    { [kind |-> "missing"], [kind |-> "invalid"] }
    \cup { [kind |-> "json", value |-> d] : d \in Documents }

NoSpec == [isNone |-> TRUE]

load_openapi_spec_lenient(file) ==
    IF file.kind = "json" THEN [isNone |-> FALSE, value |-> file.value]
    ELSE [isNone |-> FALSE,
          value |-> [other |-> TRUE, hasPaths |-> TRUE,
                     paths |-> << CHOOSE e \in PathPool : Len(e.path) = 12 /\ Len(PathParams(e.path_data[1])) = 2 >>]]

load_openapi_spec(file) ==
    IF file.kind = "json" THEN [isNone |-> FALSE, value |-> file.value] ELSE NoSpec

load_openapi_spec_output(file_path, file) ==
    << [msg |-> "Loading OpenAPI spec", file_path |-> file_path] >>
    \o (CASE file.kind = "missing" -> << [msg |-> "Error: File not found", file_path |-> file_path] >>
          [] file.kind = "invalid" -> << [msg |-> "Error: Invalid JSON format", file_path |-> file_path] >>
          [] OTHER -> <<>>)

\* if spec:
SpecTruthy(s) == ~s.isNone /\ DictTruthy(s.value)

-----------------------------------------------------------------------------
(* save_results *)

Digits == <<"0", "1", "2", "3", "4", "5", "6", "7", "8", "9">>
TwoDigits(n) == <<Digits[((n \div 10) % 10) + 1], Digits[(n % 10) + 1]>>

\* values datetime.datetime.now() may return
Clock ==
    { [hour |-> 9, minute |-> 5, second |-> 0, day |-> 3, month |-> 11, year |-> 2026],
      [hour |-> 23, minute |-> 59, second |-> 59, day |-> 31, month |-> 12, year |-> 1999] }

\* strftime("%H-%M-%S_%d-%m-%y")
Timestamp(now) ==
    TwoDigits(now.hour) \o <<"-">> \o TwoDigits(now.minute) \o <<"-">> \o TwoDigits(now.second)
    \o <<"_">> \o TwoDigits(now.day) \o <<"-">> \o TwoDigits(now.month) \o <<"-">>
    \o TwoDigits(now.year)

Filename(now) == <<"results_">> \o Timestamp(now) \o <<".txt">>

TitleLine == <<"Endpoints that returned 200 OK with fuzzed payloads:">>
SeparatorLine == [i \in 1..SEPARATOR_WIDTH |-> "="]

\* the three writes to the file
FileContentNoBlankLine(pathList) ==
    TitleLine \o <<LF>> \o SeparatorLine \o <<LF>> \o Join(pathList, <<LF>>)

FileContent(pathList) ==
    TitleLine \o <<LF>> \o SeparatorLine \o <<LF, LF>> \o Join(pathList, <<LF>>)

\* open(filename, "w"): the file is created, or replaced
WriteFile(fs, filename, content) ==
    [n \in DOMAIN fs \cup {filename} |-> IF n = filename THEN content ELSE fs[n]]

save_results_files(fs, pathList, now) ==
    IF pathList # <<>> THEN WriteFile(fs, Filename(now), FileContent(pathList)) ELSE fs

save_results_output(pathList, now) ==
    IF pathList # <<>> THEN << [msg |-> "Results saved to", filename |-> Filename(now)] >>
    ELSE << [msg |-> "No vulnerable endpoints found"] >>

-----------------------------------------------------------------------------
(* __main__ from the try statement on, and fuzz_path_parameters *)

Paths == PathsOf(spec.value)
AtPath == pathIdx <= Len(Paths)
PathData == Paths[pathIdx].path_data
AtOperation == AtPath /\ opIdx <= Len(PathData)
CurrentPath == Paths[pathIdx].path
CurrentOperation == PathData[opIdx]

\* spec = load_openapi_spec(OPENAPI_FILE) gives None or {}: the loop is skipped and
\* the finally clause calls save_results
LoadSpecAndSkip ==
    /\ pc = "load"
    /\ LET loaded == load_openapi_spec(specFile)
       IN /\ ~SpecTruthy(loaded)
          /\ spec' = loaded
          /\ \E now \in Clock :
                /\ files' = save_results_files(files, PositiveResponses, now)
                /\ console' = console \o load_openapi_spec_output(OPENAPI_FILE, specFile)
                                      \o save_results_output(PositiveResponses, now)
    /\ saveCalls' = Append(saveCalls, PositiveResponses)
    /\ pc' = "done"
    /\ UNCHANGED <<args, configFile, BASE_URL, OPENAPI_FILE, ZAP_PROXY_HOST, specFile,
                   pathIdx, opIdx, payloadIdx, RequestsCount, PositiveResponses,
                   requests, res, okPaths, hadError, repeated200, interrupted>>

\* the spec loads and fuzz_path_parameters is entered
LoadSpecAndStart ==
    /\ pc = "load"
    /\ LET loaded == load_openapi_spec(specFile)
       IN /\ SpecTruthy(loaded)
          /\ spec' = loaded
    /\ console' = console \o load_openapi_spec_output(OPENAPI_FILE, specFile)
                          \o << [msg |-> "Starting fuzzing process..."] >>
    /\ RequestsCount' = 1
    /\ pathIdx' = 1
    /\ opIdx' = 1
    /\ payloadIdx' = 1
    /\ pc' = "fuzz"
    /\ UNCHANGED <<args, configFile, BASE_URL, OPENAPI_FILE, ZAP_PROXY_HOST, specFile,
                   PositiveResponses, requests, res, okPaths, hadError, repeated200, interrupted,
                   saveCalls, files>>

\* the loop over path_data.items() is exhausted: next item of spec['paths']
NextPath ==
    /\ pc = "fuzz"
    /\ AtPath
    /\ ~AtOperation
    /\ pathIdx' = pathIdx + 1
    /\ opIdx' = 1
    /\ UNCHANGED <<pc, args, configFile, BASE_URL, OPENAPI_FILE, ZAP_PROXY_HOST, specFile,
                   spec, payloadIdx, RequestsCount, PositiveResponses, requests, res,
                   okPaths, hadError, repeated200, interrupted, saveCalls, console, files>>

\* if not path_params: continue
SkipOperation ==
    /\ pc = "fuzz"
    /\ AtOperation
    /\ PathParams(CurrentOperation) = <<>>
    /\ opIdx' = opIdx + 1
    /\ UNCHANGED <<pc, args, configFile, BASE_URL, OPENAPI_FILE, ZAP_PROXY_HOST, specFile,
                   spec, pathIdx, payloadIdx, RequestsCount, PositiveResponses, requests,
                   res, okPaths, hadError, repeated200, interrupted, saveCalls, console, files>>

\* one payload: build fuzzed_path and full_url and call requests.request
SendRequest ==
    /\ pc = "fuzz"
    /\ AtOperation
    /\ LET path_params == PathParams(CurrentOperation)
           payload == FUZZ_PAYLOADS[payloadIdx]
           fuzzed_path == FuzzedPath(CurrentPath, path_params, payload)
           full_url == FullUrl(BASE_URL, fuzzed_path)
       IN /\ path_params # <<>>
          /\ requests' = Append(requests,
                 Request(CurrentOperation.method, full_url, ZAP_PROXY_HOST,
                         CurrentPath, payload, fuzzed_path))
    /\ pc' = "request"
    /\ UNCHANGED <<args, configFile, BASE_URL, OPENAPI_FILE, ZAP_PROXY_HOST, specFile,
                   spec, pathIdx, opIdx, payloadIdx, RequestsCount, PositiveResponses,
                   res, okPaths, hadError, repeated200, interrupted, saveCalls, console, files>>

\* the flow of control after one request: the finally clause counts it and the loop
\* over FUZZ_PAYLOADS moves on, to the next operation after the last payload
AfterRequest ==
    /\ RequestsCount' = RequestsCount + 1
    /\ IF payloadIdx < Len(FUZZ_PAYLOADS)
       THEN /\ payloadIdx' = payloadIdx + 1
            /\ opIdx' = opIdx
       ELSE /\ payloadIdx' = 1
            /\ opIdx' = opIdx + 1
    /\ pc' = "fuzz"

\* a RequestException that is not caught leaves the loop and the script: only the
\* finally clauses run
ReceiveResponseErrorAborts(outcome) ==
    /\ pc = "request"
    /\ res' = outcome
    /\ PositiveResponses' = Classify(PositiveResponses, CurrentPath, outcome)
    /\ okPaths' = IF outcome = 200 THEN okPaths \cup {CurrentPath} ELSE okPaths
    /\ hadError' = (hadError \/ outcome = RequestException)
    /\ repeated200' = (repeated200 \/ (outcome = 200 /\ CurrentPath \in okPaths))
    /\ IF outcome = RequestException
       THEN /\ RequestsCount' = RequestsCount + 1
            /\ pc' = "crashed"
            /\ UNCHANGED <<payloadIdx, opIdx>>
       ELSE AfterRequest
    /\ UNCHANGED <<args, configFile, BASE_URL, OPENAPI_FILE, ZAP_PROXY_HOST, specFile,
                   spec, pathIdx, requests, interrupted, saveCalls, console, files>>

\* requests.request returns a response or raises RequestException
ReceiveResponse(outcome) ==
    /\ pc = "request"
    /\ res' = outcome
    /\ PositiveResponses' = Classify(PositiveResponses, CurrentPath, outcome)
    /\ okPaths' = IF outcome = 200 THEN okPaths \cup {CurrentPath} ELSE okPaths
    /\ hadError' = (hadError \/ outcome = RequestException)
    /\ repeated200' = (repeated200 \/ (outcome = 200 /\ CurrentPath \in okPaths))
    /\ AfterRequest
    /\ UNCHANGED <<args, configFile, BASE_URL, OPENAPI_FILE, ZAP_PROXY_HOST, specFile,
                   spec, pathIdx, requests, interrupted, saveCalls, console, files>>

\* spec['paths'] is exhausted: the total is printed, fuzz_path_parameters returns and
\* the finally clause calls save_results
FinishLoop ==
    /\ pc = "fuzz"
    /\ ~AtPath
    /\ \E now \in Clock :
          /\ files' = save_results_files(files, PositiveResponses, now)
          /\ console' = console
                \o << [msg |-> "Fuzzing completed. Total requests", total |-> RequestsCount - 1] >>
                \o save_results_output(PositiveResponses, now)
    /\ saveCalls' = Append(saveCalls, PositiveResponses)
    /\ pc' = "done"
    /\ UNCHANGED <<args, configFile, BASE_URL, OPENAPI_FILE, ZAP_PROXY_HOST, specFile,
                   spec, pathIdx, opIdx, payloadIdx, RequestsCount, PositiveResponses,
                   requests, res, okPaths, hadError, repeated200, interrupted>>

\* KeyboardInterrupt without the finally clause of __main__
InterruptNoFinally ==
    /\ pc \in {"load", "fuzz", "request"}
    /\ RequestsCount' = IF pc = "request" THEN RequestsCount + 1 ELSE RequestsCount
    /\ interrupted' = TRUE
    /\ console' = console \o << [msg |-> "Fuzzing interrupted by user"] >>
    /\ pc' = "done"
    /\ UNCHANGED <<args, configFile, BASE_URL, OPENAPI_FILE, ZAP_PROXY_HOST, specFile,
                   spec, pathIdx, opIdx, payloadIdx, PositiveResponses, requests, res,
                   okPaths, hadError, repeated200, saveCalls, files>>

\* KeyboardInterrupt while the spec is loaded or inside fuzz_path_parameters (during a
\* request the finally clause of the loop still counts it); __main__ catches it and
\* its finally clause calls save_results
Interrupt ==
    /\ pc \in {"load", "fuzz", "request"}
    /\ RequestsCount' = IF pc = "request" THEN RequestsCount + 1 ELSE RequestsCount
    /\ interrupted' = TRUE
    /\ \E now \in Clock :
          /\ files' = save_results_files(files, PositiveResponses, now)
          /\ console' = console \o << [msg |-> "Fuzzing interrupted by user"] >>
                                \o save_results_output(PositiveResponses, now)
    /\ saveCalls' = Append(saveCalls, PositiveResponses)
    /\ pc' = "done"
    /\ UNCHANGED <<args, configFile, BASE_URL, OPENAPI_FILE, ZAP_PROXY_HOST, specFile,
                   spec, pathIdx, opIdx, payloadIdx, PositiveResponses, requests, res,
                   okPaths, hadError, repeated200>>

-----------------------------------------------------------------------------
(* Specifications *)

\* no response yet
NoResponse == 0

RunInit ==
    /\ spec = NoSpec
    /\ pathIdx = 1
    /\ opIdx = 1
    /\ payloadIdx = 1
    /\ RequestsCount = 1
    /\ PositiveResponses = <<>>
    /\ requests = <<>>
    /\ res = NoResponse
    /\ okPaths = {}
    /\ hadError = FALSE
    /\ repeated200 = FALSE
    /\ interrupted = FALSE
    /\ saveCalls = <<>>
    /\ files = <<>>

\* the script at the try statement, started with --url and no configuration file
Init ==
    /\ pc = "load"
    /\ BASE_URL \in BaseUrls
    /\ args = [url |-> Str(BASE_URL), file |-> NoneValue, config |-> <<"config.json">>]
    /\ configFile = [kind |-> "missing"]
    /\ OPENAPI_FILE = DefaultOpenapiFile
    /\ ZAP_PROXY_HOST = DefaultZapProxy
    /\ specFile \in SpecFiles
    /\ console = << [msg |-> "API BOLA Vulnerability Fuzzer"] >>
    /\ RunInit

Next ==
    \/ LoadSpecAndSkip
    \/ LoadSpecAndStart
    \/ NextPath
    \/ SkipOperation
    \/ SendRequest
    \/ \E outcome \in Outcomes : ReceiveResponse(outcome)
    \/ FinishLoop
    \/ Interrupt

Spec == Init /\ [][Next]_vars

\* the script after parse_arguments, for every command line and configuration file
ConfigInit ==
    /\ pc = "config"
    /\ args \in ArgSets
    /\ configFile \in ConfigFiles
    /\ BASE_URL = Unbound
    /\ OPENAPI_FILE = Unbound
    /\ ZAP_PROXY_HOST = Unbound
    /\ specFile = [kind |-> "missing"]
    /\ console = <<>>
    /\ RunInit

ConfigNext ==
    \/ ResolveConfig
    \/ ConfigKeyError

SpecConfig == ConfigInit /\ [][ConfigNext]_vars

-----------------------------------------------------------------------------
(* Vocabulary of the properties *)

\* the payload list as the specification states it
SevenPayloads ==
    << <<"1">>, <<"0">>, <<"6,5">>, <<"24">>, <<"-5">>, <<"*&^$">>, <<"text">> >>

\* an operation with at least one parameter whose 'in' is 'path'
Fuzzable(operation) ==
    \E i \in 1..Len(operation.parameters) : operation.parameters[i].in = "path"

\* the (path, method, payload) combinations of a document, in document order
RECURSIVE ExpectedOfOperations(_, _)
ExpectedOfOperations(path, path_data) ==
    IF path_data = <<>> THEN <<>>
    ELSE (IF Fuzzable(Head(path_data))
          THEN [k \in 1..Len(SevenPayloads) |->
                    <<path, Head(path_data).method, SevenPayloads[k]>>]
          ELSE <<>>)
         \o ExpectedOfOperations(path, Tail(path_data))

RECURSIVE ExpectedOfPaths(_)
ExpectedOfPaths(paths) ==
    IF paths = <<>> THEN <<>>
    ELSE ExpectedOfOperations(Head(paths).path, Head(paths).path_data)
         \o ExpectedOfPaths(Tail(paths))

RECURSIVE FuzzablePairs(_)
FuzzablePairs(paths) ==
    IF paths = <<>> THEN 0
    ELSE Cardinality({ i \in 1..Len(Head(paths).path_data) : Fuzzable(Head(paths).path_data[i]) })
         + FuzzablePairs(Tail(paths))

IssuedCombinations ==
    [i \in 1..Len(requests) |-> <<requests[i].path, requests[i].method, requests[i].payload>>]

ReportedTotals ==
    SelectSeq(console, LAMBDA m : m.msg = "Fuzzing completed. Total requests")

Printed(text) == \E i \in 1..Len(console) : console[i].msg = text

\* fuzz_path_parameters ran and returned
LoopCompleted == pc = "done" /\ ~interrupted /\ SpecTruthy(spec)

IsPrefix(s, t) == Len(s) <= Len(t) /\ SubSeq(t, 1, Len(s)) = s

NoDuplicates(s) == \A i, j \in 1..Len(s) : i # j => s[i] # s[j]

Contains(s, p) == \E i \in 1..(Len(s) - Len(p) + 1) : SubSeq(s, i, i + Len(p) - 1) = p

RECURSIVE RStripSlash(_)
RStripSlash(s) ==
    IF s # <<>> /\ s[Len(s)] = Slash THEN RStripSlash(SubSeq(s, 1, Len(s) - 1)) ELSE s

\* a response step of the fuzz loop
ResponseStep == pc = "request" /\ pc' = "fuzz"

-----------------------------------------------------------------------------
(* C1 *)

\* C1: when fuzz_path_parameters runs to its end, the requests issued are exactly the
\* seven payloads '1','0','6,5','24','-5','*&^$','text', in that order, for every
\* fuzzable (path, method) pair in document order, so the number of requests, and the
\* total printed at the end of the loop, is 7 times the number of fuzzable pairs,
\* whether or not requests failed.
C1_RequestsAreSevenPerFuzzablePair ==
    LoopCompleted =>
        /\ IssuedCombinations = ExpectedOfPaths(Paths)
        /\ Len(requests) = 7 * FuzzablePairs(Paths)
        /\ RequestsCount - 1 = 7 * FuzzablePairs(Paths)
        /\ Len(ReportedTotals) = 1
        /\ ReportedTotals[1].total = 7 * FuzzablePairs(Paths)

\* a completed run over three fuzzable pairs and a non-fuzzable operation, with a
\* failed request
C1_Witness ==
    /\ LoopCompleted
    /\ hadError
    /\ FuzzablePairs(Paths) = 3
    /\ \E i \in 1..Len(Paths) : \E j \in 1..Len(Paths[i].path_data) :
           ~Fuzzable(Paths[i].path_data[j])
    /\ Len(requests) = 21

-----------------------------------------------------------------------------
(* C2 *)

CliSupplies(v) == Truthy(v)
FileSupplies(k) == configFile.kind = "json" /\ k \in DOMAIN configFile.value

\* the value of the highest-priority source that supplies setting k
ResolvedSetting(k, cli) ==
    IF CliSupplies(cli) THEN cli.value
    ELSE IF FileSupplies(k) THEN configFile.value[k]
    ELSE DEFAULT_CONFIG[k]

\* C2: configuration resolution never fails, and gives base_url and the spec file
\* path the value of the command-line flag, else of the configuration file, else the
\* built-in default, and proxy_url the value of the configuration file, else the
\* built-in default; a setting a source does not supply falls through.
C2_SettingsFallThrough ==
    /\ pc # "crashed"
    /\ pc = "load" =>
          /\ BASE_URL = ResolvedSetting("base_url", args.url)
          /\ OPENAPI_FILE = ResolvedSetting("openapi_file", args.file)
          /\ ZAP_PROXY_HOST = ResolvedSetting("zap_proxy", NoneValue)

-----------------------------------------------------------------------------
(* C3 *)

\* the base URL and the fuzzed path joined by exactly one slash
JoinedByOneSlash(base_url, fuzzed_path) ==
    RStripSlash(base_url) \o <<Slash>> \o LStripSlash(fuzzed_path)

\* C3: the target of every request is the base URL followed by the fuzzed path,
\* joined by exactly one slash, with no segment of either lost.
C3_TargetIsBaseThenPath ==
    \A i \in 1..Len(requests) :
        requests[i].url = JoinedByOneSlash(BASE_URL, requests[i].fuzzed_path)

-----------------------------------------------------------------------------
(* C4 *)

\* C4: save_results has run exactly once when the script ends, and not before: after
\* the loop completes, after the spec fails to load and after a KeyboardInterrupt
\* during loading or the loop; an interruption ends the run (no further request) and
\* the findings recorded before it are what save_results receives.
C4_SaveResultsRunsOnce ==
    /\ pc = "done" => saveCalls = << PositiveResponses >>
    /\ pc # "done" => saveCalls = <<>>
    /\ interrupted => pc = "done"

\* an interruption in the middle of the loop, with a finding already recorded
C4_Witness ==
    /\ interrupted
    /\ pc = "done"
    /\ Len(saveCalls) = 1
    /\ saveCalls[1] # <<>>
    /\ Len(requests) > 0
    /\ Len(requests) < 7 * FuzzablePairs(Paths)

-----------------------------------------------------------------------------
(* C5 *)

\* the lines of a text: its pieces between line feeds
Lines(content) == Split(content, LF)

\* the path templates of the document that received a 200 response, in the order of
\* their first 200 response (the loop visits each template once, in document order)
FlaggedInOrder ==
    IF spec.isNone THEN <<>>
    ELSE SelectSeq([i \in 1..Len(Paths) |-> Paths[i].path], LAMBDA p : p \in okPaths)

\* C5 as stated: no file for an empty finding set; otherwise exactly one file, holding
\* the title line and the separator line followed immediately by the flagged path
\* templates, one per line, in the order they were first flagged.
C5_PathsRightAfterHeader ==
    pc = "done" =>
        IF FlaggedInOrder = <<>> THEN DOMAIN files = {}
        ELSE /\ Cardinality(DOMAIN files) = 1
             /\ \A n \in DOMAIN files :
                    Lines(files[n]) = <<TitleLine, SeparatorLine>> \o FlaggedInOrder

\* C5 as amended: no file for an empty finding set; otherwise exactly one file, holding
\* the title line, the separator line and one empty line, followed by the distinct
\* flagged path templates, one per line, in the order they were first flagged.
C5_PathsAfterHeaderAndBlankLine ==
    pc = "done" =>
        IF FlaggedInOrder = <<>> THEN DOMAIN files = {}
        ELSE /\ Cardinality(DOMAIN files) = 1
             /\ NoDuplicates(FlaggedInOrder)
             /\ \A n \in DOMAIN files :
                    Lines(files[n]) = <<TitleLine, SeparatorLine, <<>>>> \o FlaggedInOrder

\* a report with two flagged path templates
C5_Witness ==
    /\ pc = "done"
    /\ Len(FlaggedInOrder) = 2
    /\ Cardinality(DOMAIN files) = 1
    /\ \A n \in DOMAIN files : Len(Lines(files[n])) = 5

-----------------------------------------------------------------------------
(* C6 *)

\* C6: every step leaves the finding list free of duplicates and only ever appends to
\* it: the entries already there stay, in their order.
C6_FindingsDistinctAndAppendOnly ==
    [][ /\ NoDuplicates(PositiveResponses')
        /\ IsPrefix(PositiveResponses, PositiveResponses') ]_vars

\* a second 200 response for a path template that is already a finding
C6_Witness ==
    /\ repeated200
    /\ res = 200
    /\ pc = "fuzz"
    /\ Len(PositiveResponses) = 2
    /\ requests[Len(requests)].method = "delete"

-----------------------------------------------------------------------------
(* C7 *)

\* C7: every finding is a path template that received a 200 response, and a response
\* with another status, or a failed request, leaves the finding list unchanged.
C7_OnlyStatus200Flags ==
    [][ /\ \A i \in 1..Len(PositiveResponses') : PositiveResponses'[i] \in okPaths'
        /\ (ResponseStep /\ res' # 200) => PositiveResponses' = PositiveResponses ]_vars

\* a 201 response after a failed request and a finding
C7_Witness ==
    /\ pc = "fuzz"
    /\ res = 201
    /\ hadError
    /\ Len(PositiveResponses) = 1
    /\ Cardinality(okPaths) = 1

-----------------------------------------------------------------------------
(* C8 *)

\* C8: when the specification file is missing or is not JSON, the load yields None, no
\* request is issued, there is no finding and no file, and the script ends having
\* called save_results once; unless interrupted it has reported the load error, and
\* in every case 'No vulnerable endpoints found'.
C8_LoadFailureSkipsLoop ==
    specFile.kind \in {"missing", "invalid"} =>
        /\ spec = NoSpec
        /\ pc \in {"load", "done"}
        /\ requests = <<>>
        /\ RequestsCount = 1
        /\ PositiveResponses = <<>>
        /\ DOMAIN files = {}
        /\ pc = "done" =>
              /\ saveCalls = << <<>> >>
              /\ console[Len(console)].msg = "No vulnerable endpoints found"
              /\ ~interrupted =>
                    IF specFile.kind = "missing" THEN Printed("Error: File not found")
                    ELSE Printed("Error: Invalid JSON format")

\* the script has ended on a specification file that is not JSON
C8_Witness ==
    /\ pc = "done"
    /\ ~interrupted
    /\ specFile.kind = "invalid"
    /\ Printed("Error: Invalid JSON format")

-----------------------------------------------------------------------------
(* C9 *)

\* the operation a request was issued for
OperationOf(request) ==
    LET item == CHOOSE e \in { Paths[i] : i \in 1..Len(Paths) } : e.path = request.path
    IN CHOOSE o \in { item.path_data[j] : j \in 1..Len(item.path_data) } :
           o.method = request.method

\* names of the declared path parameters of an operation
DeclaredPathNames(operation) ==
    { operation.parameters[i].name :
          i \in { j \in 1..Len(operation.parameters) : operation.parameters[j].in = "path" } }

\* the template read left to right, every '{name}' of a declared name giving way to
\* the payload
RECURSIVE Substituted(_, _, _)
Substituted(template, names, payload) ==
    IF template = <<>> THEN <<>>
    ELSE IF Head(template) = "{" /\ \E k \in 2..Len(template) : template[k] = "}"
    THEN LET k == CHOOSE i \in 2..Len(template) :
                      template[i] = "}" /\ \A j \in 2..(i - 1) : template[j] # "}"
         IN IF SubSeq(template, 2, k - 1) \in names
            THEN payload \o Substituted(Drop(template, k), names, payload)
            ELSE <<"{">> \o Substituted(Tail(template), names, payload)
    ELSE <<Head(template)>> \o Substituted(Tail(template), names, payload)

\* C9: the fuzzed path of a request, whenever one is sent, is its path template with
\* every placeholder of a declared path parameter replaced by the payload of that
\* request, and no such placeholder is left in it.
C9_EveryPlaceholderGetsThePayload ==
    pc = "request" =>
        LET r == requests[Len(requests)]
            names == DeclaredPathNames(OperationOf(r))
        IN /\ r.fuzzed_path = Substituted(r.path, names, r.payload)
           /\ \A n \in names : ~Contains(r.fuzzed_path, <<"{">> \o n \o <<"}">>)

\* '/users/{id}/orders/{orderId}' with payload '-5' has been requested as
\* '/users/-5/orders/-5'
C9_Witness ==
    /\ pc = "request"
    /\ LET i == Len(requests) IN
        /\ requests[i].path = <<Slash, "users", Slash, "{", "id", "}", Slash,
                                "orders", Slash, "{", "orderId", "}">>
        /\ requests[i].payload = <<"-5">>
        /\ requests[i].fuzzed_path = <<Slash, "users", Slash, "-5", Slash, "orders", Slash, "-5">>

-----------------------------------------------------------------------------
(* C10 *)

\* C10: once a request has failed the script has not aborted: every request answered
\* so far, the failed ones included, has been counted, and when the loop ends every
\* (path, method, payload) combination of the document has been requested.
C10_FailedRequestDoesNotAbort ==
    hadError =>
        /\ pc \in {"fuzz", "request", "done"}
        /\ RequestsCount - 1 = Len(requests) - (IF pc = "request" THEN 1 ELSE 0)
        /\ pc = "done" => saveCalls = << PositiveResponses >>
        /\ LoopCompleted => IssuedCombinations = ExpectedOfPaths(Paths)

\* a completed run in which a request failed and later requests were answered
C10_Witness ==
    /\ LoopCompleted
    /\ hadError
    /\ res \in StatusCodes
    /\ Len(requests) = 14
    /\ PositiveResponses # <<>>

=============================================================================
